---- MODULE Spec2Model ----
(***************************************************************************)
(* A model of the MSL ciphertext envelope codec                            *)
(* (crypto/MslCiphertextEnvelope.js) and of the RSA crypto context         *)
(* (crypto/RsaCryptoContext.js).                                           *)
(*                                                                         *)
(* JavaScript values are records [t, s, n, q]: t is the kind of the value, *)
(* s the text of a name-like string, n the value of a number or boolean,   *)
(* q the elements of a Uint8Array or the characters of a Base64 text.  A   *)
(* character of a Base64 text is written as its index in the Base64        *)
(* alphabet (0..63), 64 for the padding character '=' and 65 for a         *)
(* character outside the alphabet.                                         *)
(***************************************************************************)
EXTENDS Integers, Sequences, FiniteSets, TLC

\* ------------------------------------------------------------------ bounds

\* Longest Uint8Array drawn as an input (iv, ciphertext).
MaxBytes == 3
\* Most invocations made on the crypto context in one behaviour.
MaxCalls == 2

\* Byte values the inputs are drawn from.
ByteVals == {0, 77, 255}

\* ------------------------------------------------------- JavaScript values

JsVal(t, s, n, q) == [t |-> t, s |-> s, n |-> n, q |-> q]
Undef    == JsVal("undefined", "", 0, <<>>)
Null     == JsVal("null", "", 0, <<>>)
NaN      == JsVal("nan", "", 0, <<>>)
Str(s)   == JsVal("string", s, 0, <<>>)
Txt(q)   == JsVal("string", "", 0, q)
Num(n)   == JsVal("number", "", n, <<>>)
False    == JsVal("boolean", "", 0, <<>>)
True     == JsVal("boolean", "", 1, <<>>)
Bytes(q) == JsVal("bytes", "", 0, q)

\* typeof v
TypeOf(v) ==
    CASE v.t = "string"    -> "string"
      [] v.t = "number"    -> "number"
      [] v.t = "nan"       -> "number"
      [] v.t = "boolean"   -> "boolean"
      [] v.t = "undefined" -> "undefined"
      [] OTHER             -> "object"

\* The truth value JavaScript gives v in a condition: undefined, null, NaN, 0,
\* false and the empty string are falsy; every object, an empty Uint8Array
\* included, is truthy.
Truthy(v) ==
    CASE v.t = "string"    -> (v.s # "" \/ v.q # <<>>)
      [] v.t = "number"    -> v.n # 0
      [] v.t = "boolean"   -> v.n = 1
      [] v.t = "nan"       -> FALSE
      [] v.t = "undefined" -> FALSE
      [] v.t = "null"      -> FALSE
      [] OTHER             -> TRUE

\* v == k for a number k: a number equal to k, or a string spelling k.
LooseEqNum(v, k) ==
    \/ v.t = "number" /\ v.n = k
    \/ v.t = "string" /\ v.q = <<>> /\ v.s = ToString(k)
    \/ v.t = "boolean" /\ v.n = k

\* a == b for a string a: b is the same string.
LooseEqStr(a, b) == b.t = "string" /\ a.t = "string" /\ a.s = b.s /\ a.q = b.q

\* An exception: its class and its MslError.
Exc(cls, code) == [cls |-> cls, code |-> code]
NoExc == Exc("", "")
IsMslException(e) ==
    e.cls \in {"MslCryptoException", "MslEncodingException", "MslInternalException"}

\* ------------------------------------------------------------------ Base64

B64Pad == 64

RECURSIVE base64_encode(_)
base64_encode(b) ==
    IF Len(b) = 0 THEN <<>>
    ELSE IF Len(b) = 1 THEN
        << b[1] \div 4, (b[1] % 4) * 16, B64Pad, B64Pad >>
    ELSE IF Len(b) = 2 THEN
        << b[1] \div 4, (b[1] % 4) * 16 + (b[2] \div 16), (b[2] % 16) * 4, B64Pad >>
    ELSE
        << b[1] \div 4, (b[1] % 4) * 16 + (b[2] \div 16),
           (b[2] % 16) * 4 + (b[3] \div 64), b[3] % 64 >>
        \o base64_encode(SubSeq(b, 4, Len(b)))

\* A well-formed Base64 text: whole groups of four characters of the alphabet,
\* padded only at the end of the last group.
base64_valid(v) ==
    /\ v.t = "string"
    /\ v.s = ""
    /\ Len(v.q) % 4 = 0
    /\ \A i \in 1..Len(v.q) :
          \/ v.q[i] < B64Pad
          \/ /\ v.q[i] = B64Pad
             /\ i >= Len(v.q) - 1
             /\ v.q[Len(v.q)] = B64Pad

RECURSIVE base64_groups(_)
base64_groups(q) ==
    IF Len(q) = 0 THEN <<>>
    ELSE
        LET first  == << q[1] * 4 + (q[2] \div 16) >>
            second == IF q[3] = B64Pad THEN <<>>
                      ELSE << (q[2] % 16) * 16 + (q[3] \div 4) >>
            third  == IF q[4] = B64Pad THEN <<>>
                      ELSE << (q[3] % 4) * 64 + q[4] >>
        IN first \o second \o third \o base64_groups(SubSeq(q, 5, Len(q)))

\* base64$decode of a well-formed text; it throws on any other.
base64_decode(v) == Bytes(base64_groups(v.q))

\* ------------------------------------------- MslConstants and MslError names

\* The recognized cipher specifications.
MslConstants_CipherSpec == {"AES/CBC/PKCS5Padding"}

\* MslConstants$CipherSpec$fromString: the cipher specification a string names,
\* or undefined.
MslConstants_CipherSpec_fromString(v) ==
    IF v.t = "string" /\ v.q = <<>> /\ v.s \in MslConstants_CipherSpec THEN v ELSE Undef

\* ------------------------------------------------------ ciphertext envelope

V1 == 1
V2 == 2
Version == {V1, V2}

Envelope(version, keyId, cipherSpec, iv, ciphertext) ==
    [version |-> version, keyId |-> keyId, cipherSpec |-> cipherSpec,
     iv |-> iv, ciphertext |-> ciphertext]
NoEnv == Envelope(0, Undef, Undef, Undef, Undef)

\* A JSON value handed to the codec: an object with the six keys the codec
\* reads (a key the object lacks reads as undefined), or (isObj = FALSE) null.
JsonObj(version, keyid, cipherspec, iv, ciphertext, sha256) ==
    [isObj |-> TRUE, version |-> version, keyid |-> keyid, cipherspec |-> cipherspec,
     iv |-> iv, ciphertext |-> ciphertext, sha256 |-> sha256]
NoJson == [isObj |-> FALSE, version |-> Undef, keyid |-> Undef, cipherspec |-> Undef,
           iv |-> Undef, ciphertext |-> Undef, sha256 |-> Undef]

\* init leaving the key ID set when the first argument is a cipher
\* specification.
MslCiphertextEnvelope_init_keepKeyId(keyIdOrSpec, iv, ciphertext) ==
    IF \E cs \in MslConstants_CipherSpec : LooseEqStr(Str(cs), keyIdOrSpec)
    THEN Envelope(V2, keyIdOrSpec, keyIdOrSpec, iv, ciphertext)
    ELSE Envelope(V1, keyIdOrSpec, Null, iv, ciphertext)

\* MslCiphertextEnvelope.init: the version follows from whether the first
\* argument equals a cipher specification.
MslCiphertextEnvelope_init(keyIdOrSpec, iv, ciphertext) ==
    IF \E cs \in MslConstants_CipherSpec : LooseEqStr(Str(cs), keyIdOrSpec)
    THEN Envelope(V2, Null, keyIdOrSpec, iv, ciphertext)
    ELSE Envelope(V1, keyIdOrSpec, Null, iv, ciphertext)

\* toJSON emitting the version field for every version.
toJSON_versionAlways(env) ==
    CASE env.version = V1 ->
            [ok |-> TRUE, exc |-> NoExc,
             obj |-> JsonObj(Num(env.version), env.keyId, Undef,
                             IF Truthy(env.iv) THEN Txt(base64_encode(env.iv.q)) ELSE Undef,
                             Txt(base64_encode(env.ciphertext.q)),
                             Txt(<<0, 0, B64Pad, B64Pad>>))]
      [] env.version = V2 ->
            [ok |-> TRUE, exc |-> NoExc,
             obj |-> JsonObj(Num(env.version), Undef, env.cipherSpec,
                             IF Truthy(env.iv) THEN Txt(base64_encode(env.iv.q)) ELSE Undef,
                             Txt(base64_encode(env.ciphertext.q)),
                             Undef)]
      [] OTHER ->
            [ok |-> FALSE, exc |-> Exc("MslInternalException", "INTERNAL_EXCEPTION"),
             obj |-> NoJson]

\* MslCiphertextEnvelope.toJSON.
toJSON(env) ==
    CASE env.version = V1 ->
            [ok |-> TRUE, exc |-> NoExc,
             obj |-> JsonObj(Undef, env.keyId, Undef,
                             IF Truthy(env.iv) THEN Txt(base64_encode(env.iv.q)) ELSE Undef,
                             Txt(base64_encode(env.ciphertext.q)),
                             Txt(<<0, 0, B64Pad, B64Pad>>))]
      [] env.version = V2 ->
            [ok |-> TRUE, exc |-> NoExc,
             obj |-> JsonObj(Num(env.version), Undef, env.cipherSpec,
                             IF Truthy(env.iv) THEN Txt(base64_encode(env.iv.q)) ELSE Undef,
                             Txt(base64_encode(env.ciphertext.q)),
                             Undef)]
      [] OTHER ->
            [ok |-> FALSE, exc |-> Exc("MslInternalException", "INTERNAL_EXCEPTION"),
             obj |-> NoJson]

\* parse, "determine the envelope version": the version the envelope is parsed
\* as, given the caller's version (null when the caller gives none).
parse_version(jsonObj, version) ==
    IF ~Truthy(version) THEN
        LET v == jsonObj.version IN
        IF ~Truthy(v) \/ TypeOf(v) # "number" \/ v.t = "nan"
        THEN [ok |-> TRUE, exc |-> NoExc, version |-> Num(V1)]
        ELSE IF \E k \in Version : LooseEqNum(v, k)
        THEN [ok |-> TRUE, exc |-> NoExc, version |-> v]
        ELSE [ok |-> FALSE,
              exc |-> Exc("MslCryptoException", "UNIDENTIFIED_CIPHERTEXT_ENVELOPE"),
              version |-> Undef]
    ELSE [ok |-> TRUE, exc |-> NoExc, version |-> version]

\* parse, the V1 case of "parse envelope".
parse_V1(jsonObj) ==
    IF \/ TypeOf(jsonObj.keyid) # "string"
       \/ (Truthy(jsonObj.iv) /\ TypeOf(jsonObj.iv) # "string")
       \/ TypeOf(jsonObj.ciphertext) # "string"
       \/ TypeOf(jsonObj.sha256) # "string"
    THEN [ok |-> FALSE, exc |-> Exc("MslEncodingException", "JSON_PARSE_ERROR"),
          keyIdOrSpec |-> Undef]
    ELSE [ok |-> TRUE, exc |-> NoExc, keyIdOrSpec |-> jsonObj.keyid]

\* parse_V2 without the mapping of the cipher specification: any string is
\* taken as the cipher specification.
parse_V2_anySpec(jsonObj) ==
    IF ~LooseEqNum(jsonObj.version, V2)
    THEN [ok |-> FALSE,
          exc |-> Exc("MslCryptoException", "UNIDENTIFIED_CIPHERTEXT_ENVELOPE"),
          keyIdOrSpec |-> Undef]
    ELSE IF \/ TypeOf(jsonObj.cipherspec) # "string"
            \/ (Truthy(jsonObj.iv) /\ TypeOf(jsonObj.iv) # "string")
            \/ TypeOf(jsonObj.ciphertext) # "string"
    THEN [ok |-> FALSE, exc |-> Exc("MslEncodingException", "JSON_PARSE_ERROR"),
          keyIdOrSpec |-> Undef]
    ELSE [ok |-> TRUE, exc |-> NoExc, keyIdOrSpec |-> jsonObj.cipherspec]

\* parse, the V2 case of "parse envelope".
parse_V2(jsonObj) ==
    IF ~LooseEqNum(jsonObj.version, V2)
    THEN [ok |-> FALSE,
          exc |-> Exc("MslCryptoException", "UNIDENTIFIED_CIPHERTEXT_ENVELOPE"),
          keyIdOrSpec |-> Undef]
    ELSE IF \/ TypeOf(jsonObj.cipherspec) # "string"
            \/ (Truthy(jsonObj.iv) /\ TypeOf(jsonObj.iv) # "string")
            \/ TypeOf(jsonObj.ciphertext) # "string"
    THEN [ok |-> FALSE, exc |-> Exc("MslEncodingException", "JSON_PARSE_ERROR"),
          keyIdOrSpec |-> Undef]
    ELSE IF ~Truthy(MslConstants_CipherSpec_fromString(jsonObj.cipherspec))
    THEN [ok |-> FALSE, exc |-> Exc("MslCryptoException", "UNIDENTIFIED_CIPHERSPEC"),
          keyIdOrSpec |-> Undef]
    ELSE [ok |-> TRUE, exc |-> NoExc,
          keyIdOrSpec |-> MslConstants_CipherSpec_fromString(jsonObj.cipherspec)]

\* parse, "parse envelope": the switch on the version (strict equality).
parse_fields(jsonObj, version) ==
    CASE version = Num(V1) -> parse_V1(jsonObj)
      [] version = Num(V2) -> parse_V2(jsonObj)
      [] OTHER -> [ok |-> FALSE,
                   exc |-> Exc("MslCryptoException", "UNSUPPORTED_CIPHERTEXT_ENVELOPE"),
                   keyIdOrSpec |-> Undef]

\* parse, "convert Base64-encoded values to Uint8Array".
parse_decode(jsonObj) ==
    IF \/ (Truthy(jsonObj.iv) /\ ~base64_valid(jsonObj.iv))
       \/ ~base64_valid(jsonObj.ciphertext)
    THEN [ok |-> FALSE,
          exc |-> Exc("MslCryptoException", "CIPHERTEXT_ENVELOPE_PARSE_ERROR"),
          iv |-> Undef, ciphertext |-> Undef]
    ELSE [ok |-> TRUE, exc |-> NoExc,
          iv |-> IF Truthy(jsonObj.iv) THEN base64_decode(jsonObj.iv) ELSE jsonObj.iv,
          ciphertext |-> base64_decode(jsonObj.ciphertext)]

ParseFail(e) == [ok |-> FALSE, exc |-> e, env |-> NoEnv]

\* MslCiphertextEnvelope$parse: the envelope delivered to callback.result, or
\* the exception delivered to callback.error.
MslCiphertextEnvelope_parse(jsonObj, version) ==
    IF ~jsonObj.isObj THEN ParseFail(Exc("TypeError", ""))
    ELSE
        LET pv == parse_version(jsonObj, version) IN
        IF ~pv.ok THEN ParseFail(pv.exc)
        ELSE
            LET pf == parse_fields(jsonObj, pv.version) IN
            IF ~pf.ok THEN ParseFail(pf.exc)
            ELSE
                LET pd == parse_decode(jsonObj) IN
                IF ~pd.ok THEN ParseFail(pd.exc)
                ELSE [ok |-> TRUE, exc |-> NoExc,
                      env |-> MslCiphertextEnvelope_init(pf.keyIdOrSpec, pd.iv, pd.ciphertext)]

\* ------------------------------------------------- inputs of the codec

\* The Uint8Arrays of at most n bytes.
ByteSeqs(n) == UNION { [1..m -> ByteVals] : m \in 0..n }

\* First arguments of create: key identifiers, one of them spelled like a
\* cipher specification, and the cipher specification.
KeyIdOrSpecInputs == { Str("k1"), Str("AES/CBC/PKCS5Padding") }
IvInputs          == { Null } \cup { Bytes(q) : q \in ByteSeqs(MaxBytes) }
CiphertextInputs  == { Bytes(q) : q \in ByteSeqs(MaxBytes) }

\* The version arguments of parse: none, V1, V2 and unrecognized ones.
VersionInputs == { Null, Num(0), Num(V1), Num(V2), Num(3) }

\* Values of the six keys of a JSON object handed to parse.
JsonVersionVals    == { Undef, Null, NaN, Num(0), Num(1), Num(2), Num(3), Num(99),
                        Num(-1), Str("2"), True }
JsonKeyIdVals      == { Undef, Str(""), Str("k1"), Str("AES/CBC/PKCS5Padding"), Num(5) }
JsonCipherSpecVals == { Undef, Str("AES/CBC/PKCS5Padding"), Str("UNKNOWN"), Num(7) }
JsonIvVals         == { Undef, Null, Num(0), Num(1), False, Txt(<<>>),
                        Txt(<<19, 16, B64Pad, B64Pad>>), Txt(<<65>>) }
JsonCiphertextVals == { Undef, Num(5), Txt(<<>>),
                        Txt(<<19, 16, B64Pad, B64Pad>>), Txt(<<65, 65>>) }
JsonSha256Vals     == { Undef, Num(5), Str("x"), Txt(<<0, 0, B64Pad, B64Pad>>) }

\* ------------------------------------------------- the codec as a machine

VARIABLES
    envPc,      \* "idle", "created", "serialized", "given", "parsed"
    envFrom,    \* "create" when the JSON object is a serialized envelope, else "given"
    envIn,      \* the arguments of create
    envObj,     \* the envelope create delivered
    envJson,    \* the JSON object: toJSON's result, or the one given
    envVersion, \* the version argument of parse
    envOut      \* what parse delivered

VARIABLES
    ctx,    \* the crypto context: the properties init defines
    calls   \* the invocations made so far, each with its position (pc), what
            \* its callback received (out) and the primitives it invoked (prov)

envVars == << envPc, envFrom, envIn, envObj, envJson, envVersion, envOut >>

CreateArgs(k, iv, ct) == [keyIdOrSpec |-> k, iv |-> iv, ciphertext |-> ct]

EnvIdle ==
    /\ envPc = "idle"
    /\ envFrom = "none"
    /\ envIn = CreateArgs(Undef, Undef, Undef)
    /\ envObj = NoEnv
    /\ envJson = NoJson
    /\ envVersion = Null
    /\ envOut = ParseFail(NoExc)

\* MslCiphertextEnvelope$create(keyIdOrSpec, iv, ciphertext, callback).
EnvCreate ==
    /\ envPc = "idle"
    /\ \E k \in KeyIdOrSpecInputs, iv \in IvInputs, ct \in CiphertextInputs :
          /\ envIn' = CreateArgs(k, iv, ct)
          /\ envObj' = MslCiphertextEnvelope_init(k, iv, ct)
    /\ envPc' = "created"
    /\ envFrom' = "create"
    /\ UNCHANGED << envJson, envVersion, envOut, ctx, calls >>

\* JSON.stringify(envelope) and JSON.parse of its text: the object toJSON builds.
EnvToJSON ==
    /\ envPc = "created"
    /\ toJSON(envObj).ok
    /\ envJson' = toJSON(envObj).obj
    /\ envPc' = "serialized"
    /\ UNCHANGED << envFrom, envIn, envObj, envVersion, envOut, ctx, calls >>

\* A JSON object arrives from the peer.
EnvGiven ==
    /\ envPc = "idle"
    /\ \E v \in JsonVersionVals, k \in JsonKeyIdVals, c \in JsonCipherSpecVals,
          iv \in JsonIvVals, ct \in JsonCiphertextVals, h \in JsonSha256Vals :
          envJson' = JsonObj(v, k, c, iv, ct, h)
    /\ envPc' = "given"
    /\ envFrom' = "given"
    /\ UNCHANGED << envIn, envObj, envVersion, envOut, ctx, calls >>

\* MslCiphertextEnvelope$parse(jsonObj, version, callback).
EnvParse ==
    /\ envPc \in {"serialized", "given"}
    /\ \E version \in VersionInputs :
          /\ envVersion' = version
          /\ envOut' = MslCiphertextEnvelope_parse(envJson, version)
    /\ envPc' = "parsed"
    /\ UNCHANGED << envFrom, envIn, envObj, envJson, ctx, calls >>

EnvNext == EnvCreate \/ EnvToJSON \/ EnvGiven \/ EnvParse

\* --------------------------------------------------------- RSA crypto context

NULL_OP == "nullOp"

ENCRYPT_DECRYPT_OAEP  == 1
ENCRYPT_DECRYPT_PKCS1 == 2
WRAP_UNWRAP_OAEP      == 3
WRAP_UNWRAP_PKCS1     == 4
SIGN_VERIFY           == 5
Mode == { ENCRYPT_DECRYPT_OAEP, ENCRYPT_DECRYPT_PKCS1, WRAP_UNWRAP_OAEP,
          WRAP_UNWRAP_PKCS1, SIGN_VERIFY }

\* init choosing the wrap transform by the encrypt/decrypt modes.
RsaCryptoContext_init_wrapByDataMode(id, privateKey, publicKey, mode) ==
    [ id            |-> id,
      privateKey    |-> privateKey,
      publicKey     |-> publicKey,
      transform     |-> IF mode = ENCRYPT_DECRYPT_PKCS1 THEN "RSAES"
                        ELSE IF mode = ENCRYPT_DECRYPT_OAEP THEN "RSA-OAEP"
                        ELSE NULL_OP,
      wrapTransform |-> IF mode = ENCRYPT_DECRYPT_PKCS1 THEN "RSAES"
                        ELSE IF mode = ENCRYPT_DECRYPT_OAEP THEN "RSA-OAEP"
                        ELSE NULL_OP,
      algo          |-> IF mode = SIGN_VERIFY THEN "RSASSA-SHA256" ELSE NULL_OP ]

\* RsaCryptoContext.init: the properties of the context.  privateKey and
\* publicKey say whether the key was given (TRUE) or is null (FALSE).
RsaCryptoContext_init(id, privateKey, publicKey, mode) ==
    [ id            |-> id,
      privateKey    |-> privateKey,
      publicKey     |-> publicKey,
      transform     |-> IF mode = ENCRYPT_DECRYPT_PKCS1 THEN "RSAES"
                        ELSE IF mode = ENCRYPT_DECRYPT_OAEP THEN "RSA-OAEP"
                        ELSE NULL_OP,
      wrapTransform |-> IF mode = WRAP_UNWRAP_PKCS1 THEN "RSAES"
                        ELSE IF mode = WRAP_UNWRAP_OAEP THEN "RSA-OAEP"
                        ELSE NULL_OP,
      algo          |-> IF mode = SIGN_VERIFY THEN "RSASSA-SHA256" ELSE NULL_OP ]

\* ---- values passed to and delivered by the operations

\* k = "raw": a Uint8Array with the bytes q, which are not a JSON text.
\* k = "json": the bytes of the JSON text of o (of null when o is NoJson).
\* k = "bool": a boolean (s).  k = "key": a key handle of class s over the key
\* material q.  k = "none": null.
Data(k, q, o, s) == [k |-> k, q |-> q, o |-> o, s |-> s]
Raw(q)       == Data("raw", q, NoJson, "")
JsonText(o)  == Data("json", <<>>, o, "")
BoolVal(b)   == Data("bool", <<>>, NoJson, IF b THEN "true" ELSE "false")
KeyOf(s, q)  == Data("key", q, NoJson, s)
NoVal        == Data("none", <<>>, NoJson, "")

\* data.length == 0
IsEmpty(data) == data.k = "raw" /\ data.q = <<>>

\* What the caller's callback received.
Result(v) == [kind |-> "result", val |-> v, exc |-> NoExc]
Error(e)  == [kind |-> "error", val |-> NoVal, exc |-> e]

MslCryptoException(code) == Exc("MslCryptoException", code)

\* ---- the asynchronous primitive provider (mslCrypto) and the collaborators

Complement(q) == [i \in 1..Len(q) |-> 255 - q[i]]
\* mslCrypto.encrypt / decrypt / wrapKey / unwrapKey: the value the promise
\* resolves with.  decrypt inverts encrypt, unwrapKey inverts wrapKey.
mslCrypto_encrypt(q)   == Complement(q)
mslCrypto_decrypt(q)   == Complement(q)
mslCrypto_wrapKey(q)   == <<87>> \o q
mslCrypto_unwrapKey(q) == IF Len(q) > 0 THEN Tail(q) ELSE q
\* mslCrypto.sign and mslCrypto.verify: verify accepts exactly the signature
\* sign makes for the same data.
mslCrypto_sign(q)           == <<83>> \o Complement(q)
mslCrypto_verify(sig, data) == sig = mslCrypto_sign(data)

\* The types a raw key unwrapKey resolves with may report.
RawKeyTypes == { "secret", "public", "private", "bogus" }

\* MslSignatureEnvelope (version 1): the envelope's bytes are the signature.
MslSignatureEnvelope_bytes(signature) == Raw(signature.q)
MslSignatureEnvelope_signature(bytes) == Raw(bytes.q)

\* ---- the guarded body of an operation

\* How a function run by AsyncExecutor ends: it returns a value (c = "return"),
\* throws (c = "throw"), or returns undefined (c = "undefined") after starting
\* asynchronous work (pc, arg, prov) or after a nested callback delivered out.
Comp(c, val, exc, out, pc, arg, prov) ==
    [c |-> c, val |-> val, exc |-> exc, out |-> out, pc |-> pc, arg |-> arg, prov |-> prov]
Return(v)            == Comp("return", v, NoExc, <<>>, "done", NoVal, <<>>)
Throw(e)             == Comp("throw", NoVal, e, <<>>, "done", NoVal, <<>>)
Async(pc, arg, prov) == Comp("undefined", NoVal, NoExc, <<>>, pc, arg, prov)
Delivered(out)       == Comp("undefined", NoVal, NoExc, out, "done", NoVal, <<>>)

\* The effect of a handler on its invocation: what it delivers to the caller's
\* callback, what the invocation waits for next, and the primitive it invoked.
Eff(out, pc, arg, prov) == [out |-> out, pc |-> pc, arg |-> arg, prov |-> prov]

\* AsyncExecutor(callback, func): a returned value goes to callback.result, a
\* thrown exception to callback.error, and undefined delivers nothing.
AsyncExecutor(comp) ==
    CASE comp.c = "return" -> Eff(comp.out \o << Result(comp.val) >>, "done", NoVal, comp.prov)
      [] comp.c = "throw"  -> Eff(comp.out \o << Error(comp.exc) >>, "done", NoVal, comp.prov)
      [] OTHER             -> Eff(comp.out, comp.pc, comp.arg, comp.prov)

\* ---- encrypt

\* encrypt without the check of the public key.
encrypt_noKeyCheck(this, data) ==
    AsyncExecutor(
        IF this.transform = NULL_OP THEN Return(data)
        ELSE IF IsEmpty(data) THEN Return(data)
        ELSE Async("provider", data, << "encrypt" >>))

\* encrypt without the check for empty data.
encrypt_noEmptyCheck(this, data) ==
    AsyncExecutor(
        IF this.transform = NULL_OP THEN Return(data)
        ELSE IF ~this.publicKey THEN Throw(MslCryptoException("ENCRYPT_NOT_SUPPORTED"))
        ELSE Async("provider", data, << "encrypt" >>))

\* encrypt: the function AsyncExecutor runs.
encrypt(this, data) ==
    AsyncExecutor(
        IF this.transform = NULL_OP THEN Return(data)
        ELSE IF ~this.publicKey THEN Throw(MslCryptoException("ENCRYPT_NOT_SUPPORTED"))
        ELSE IF IsEmpty(data) THEN Return(data)
        ELSE Async("provider", data, << "encrypt" >>))

\* encrypt, oncomplete: the envelope is created under the context's identity,
\* serialized and delivered as bytes.
encrypt_oncomplete(this, ciphertext) ==
    LET envelope == MslCiphertextEnvelope_init(Str(this.id), Null, Bytes(ciphertext))
        json     == toJSON(envelope)
    IN  IF json.ok
        THEN Eff(<< Result(JsonText(json.obj)) >>, "done", NoVal, <<>>)
        ELSE Eff(<< Error(MslCryptoException("ENCRYPT_ERROR")) >>, "done", NoVal, <<>>)

encrypt_onerror ==
    Eff(<< Error(MslCryptoException("ENCRYPT_ERROR")) >>, "done", NoVal, <<>>)

\* ---- decrypt

\* decrypt_result reporting the key ID mismatch to callback.error without
\* leaving the handler: the primitive is still invoked.
decrypt_result_fallThrough(this, envelope) ==
    Comp("undefined", NoVal, NoExc,
         IF ~LooseEqStr(Str(this.id), envelope.keyId)
         THEN << Error(MslCryptoException("ENVELOPE_KEY_ID_MISMATCH")) >> ELSE <<>>,
         "provider", Raw(envelope.ciphertext.q), << "decrypt" >>)

\* decrypt_result without the key ID check.
decrypt_result_noCheck(this, envelope) ==
    Async("provider", Raw(envelope.ciphertext.q), << "decrypt" >>)

\* decrypt, the result callback of parse: the key ID check, then the primitive.
decrypt_result(this, envelope) ==
    IF ~LooseEqStr(Str(this.id), envelope.keyId)
    THEN Delivered(<< Error(MslCryptoException("ENVELOPE_KEY_ID_MISMATCH")) >>)
    ELSE Async("provider", Raw(envelope.ciphertext.q), << "decrypt" >>)

\* decrypt handing the error of parse to the caller as it is.
decrypt_error_asIs(e) == Delivered(<< Error(e) >>)

\* decrypt, the error callback of parse.
decrypt_error(e) ==
    Delivered(<< Error(
        IF e.cls = "MslEncodingException"
        THEN MslCryptoException("CIPHERTEXT_ENVELOPE_ENCODE_ERROR")
        ELSE IF ~IsMslException(e) THEN MslCryptoException("DECRYPT_ERROR")
        ELSE e) >>)

\* decrypt testing the length of the data before the private key.
decrypt_emptyFirst(this, data) ==
    AsyncExecutor(
        IF this.transform = NULL_OP THEN Return(data)
        ELSE IF IsEmpty(data) THEN Return(data)
        ELSE IF ~this.privateKey THEN Throw(MslCryptoException("DECRYPT_NOT_SUPPORTED"))
        ELSE IF data.k # "json"
        THEN Throw(MslCryptoException("CIPHERTEXT_ENVELOPE_PARSE_ERROR"))
        ELSE LET parsed == MslCiphertextEnvelope_parse(data.o, Num(V1))
             IN  IF parsed.ok THEN decrypt_result(this, parsed.env)
                 ELSE decrypt_error(parsed.exc))

\* decrypt: the function AsyncExecutor runs.
decrypt(this, data) ==
    AsyncExecutor(
        IF this.transform = NULL_OP THEN Return(data)
        ELSE IF ~this.privateKey THEN Throw(MslCryptoException("DECRYPT_NOT_SUPPORTED"))
        ELSE IF IsEmpty(data) THEN Return(data)
        ELSE IF data.k # "json"
        THEN Throw(MslCryptoException("CIPHERTEXT_ENVELOPE_PARSE_ERROR"))
        ELSE LET parsed == MslCiphertextEnvelope_parse(data.o, Num(V1))
             IN  IF parsed.ok THEN decrypt_result(this, parsed.env)
                 ELSE decrypt_error(parsed.exc))

decrypt_oncomplete(plaintext) ==
    Eff(<< Result(Raw(plaintext)) >>, "done", NoVal, <<>>)

decrypt_onerror ==
    Eff(<< Error(MslCryptoException("DECRYPT_ERROR")) >>, "done", NoVal, <<>>)

\* ---- wrap

\* wrap treating an inactive wrap transform as the other operations treat
\* theirs: the key material is returned unmodified.
wrap_passThrough(this, key) ==
    AsyncExecutor(
        IF this.wrapTransform = NULL_OP THEN Return(Raw(key.q))
        ELSE IF ~this.publicKey THEN Throw(MslCryptoException("WRAP_NOT_SUPPORTED"))
        ELSE Async("provider", Raw(key.q), << "wrapKey" >>))

wrap(this, key) ==
    AsyncExecutor(
        IF this.wrapTransform = NULL_OP \/ ~this.publicKey
        THEN Throw(MslCryptoException("WRAP_NOT_SUPPORTED"))
        ELSE Async("provider", Raw(key.q), << "wrapKey" >>))

wrap_oncomplete(result) ==
    Eff(<< Result(Raw(result)) >>, "done", NoVal, <<>>)

\* wrap's onerror handing the error of the primitive to the caller.
wrap_onerror_passError ==
    Eff(<< Error(Exc("Error", "OperationError")) >>, "done", NoVal, <<>>)

wrap_onerror ==
    Eff(<< Error(MslCryptoException("WRAP_ERROR")) >>, "done", NoVal, <<>>)

\* ---- unwrap

unwrap(this, data) ==
    AsyncExecutor(
        IF this.wrapTransform = NULL_OP \/ ~this.privateKey
        THEN Throw(MslCryptoException("UNWRAP_NOT_SUPPORTED"))
        ELSE Async("provider", data, << "unwrapKey" >>))

\* constructKey without the default case: an unrecognized type ends the
\* function with nothing thrown.
constructKey_noDefault(type, material) ==
    AsyncExecutor(
        CASE type = "secret"  -> Async("keycreate", KeyOf("CipherKey", material), <<>>)
          [] type = "public"  -> Async("keycreate", KeyOf("PublicKey", material), <<>>)
          [] type = "private" -> Async("keycreate", KeyOf("PrivateKey", material), <<>>)
          [] OTHER            -> Delivered(<<>>))

\* constructKey taking a raw key of an unrecognized type for a secret key.
constructKey_defaultSecret(type, material) ==
    AsyncExecutor(
        CASE type = "public"  -> Async("keycreate", KeyOf("PublicKey", material), <<>>)
          [] type = "private" -> Async("keycreate", KeyOf("PrivateKey", material), <<>>)
          [] OTHER            -> Async("keycreate", KeyOf("CipherKey", material), <<>>))

\* unwrap, constructKey: the key handle is made by the class the raw key's
\* type names.
constructKey(type, material) ==
    AsyncExecutor(
        CASE type = "secret"  -> Async("keycreate", KeyOf("CipherKey", material), <<>>)
          [] type = "public"  -> Async("keycreate", KeyOf("PublicKey", material), <<>>)
          [] type = "private" -> Async("keycreate", KeyOf("PrivateKey", material), <<>>)
          [] OTHER            -> Throw(MslCryptoException("UNSUPPORTED_KEY")))

unwrap_onerror ==
    Eff(<< Error(MslCryptoException("UNWRAP_ERROR")) >>, "done", NoVal, <<>>)

\* ---- sign

sign(this, data) ==
    AsyncExecutor(
        IF this.algo = NULL_OP THEN Return(Raw(<<>>))
        ELSE IF ~this.privateKey THEN Throw(MslCryptoException("SIGN_NOT_SUPPORTED"))
        ELSE Async("provider", data, << "sign" >>))

\* sign, oncomplete: the signature envelope is created.
sign_oncomplete(hash) == Eff(<<>>, "sigcreate", Raw(hash), <<>>)

\* sign, the callbacks of MslSignatureEnvelope$create.
sign_result(signature) ==
    Eff(<< Result(MslSignatureEnvelope_bytes(signature)) >>, "done", NoVal, <<>>)

sign_onerror ==
    Eff(<< Error(MslCryptoException("SIGNATURE_ERROR")) >>, "done", NoVal, <<>>)

\* ---- verify

\* verify testing the public key before the signature algorithm.
verify_keyFirst(this, data, signature) ==
    AsyncExecutor(
        IF ~this.publicKey THEN Throw(MslCryptoException("VERIFY_NOT_SUPPORTED"))
        ELSE IF this.algo = NULL_OP THEN Return(BoolVal(TRUE))
        ELSE Async("sigparse", signature, <<>>))

verify(this, data, signature) ==
    AsyncExecutor(
        IF this.algo = NULL_OP THEN Return(BoolVal(TRUE))
        ELSE IF ~this.publicKey THEN Throw(MslCryptoException("VERIFY_NOT_SUPPORTED"))
        ELSE Async("sigparse", signature, <<>>))

\* verify, the result callback of MslSignatureEnvelope$parse.
verify_result(bytes) ==
    AsyncExecutor(Async("provider", MslSignatureEnvelope_signature(bytes), << "verify" >>))

\* verify_oncomplete delivering true whatever the primitive resolved with.
verify_oncomplete_true(b) ==
    Eff(<< Result(BoolVal(TRUE)) >>, "done", NoVal, <<>>)

verify_oncomplete(b) ==
    Eff(<< Result(BoolVal(b)) >>, "done", NoVal, <<>>)

verify_onerror ==
    Eff(<< Error(MslCryptoException("SIGNATURE_ERROR")) >>, "done", NoVal, <<>>)

\* callback.error handed to a collaborator: its error goes to the caller as is.
callback_error(e) == Eff(<< Error(e) >>, "done", NoVal, <<>>)

\* ------------------------------------------- inputs of the crypto context

IdInputs == { "k1", "AES/CBC/PKCS5Padding" }

\* What encrypt delivers for the data q under the identity id.
EnvelopeText(id, q) ==
    JsonText(toJSON(MslCiphertextEnvelope_init(Str(id), Null, Bytes(mslCrypto_encrypt(q)))).obj)

EncryptInputs == { Raw(<<>>), Raw(<<77>>) }

\* Inputs of decrypt: no bytes, bytes that are no JSON text, the JSON text
\* null, the envelope of another context ("k2"), and the envelopes encrypt
\* delivers under each identity (version 1 under "k1", version 2 under the
\* identity spelled like a cipher specification).
DecryptInputs ==
    { Raw(<<>>), Raw(<<77>>), JsonText(NoJson), EnvelopeText("k2", <<77>>) }
    \cup { EnvelopeText(id, <<77>>) : id \in IdInputs }

WrapInputs   == { KeyOf("CipherKey", <<77>>) }
UnwrapInputs == { Raw(mslCrypto_wrapKey(<<77>>)) }
SignInputs   == { Raw(<<77>>) }
\* Inputs of verify: the data and the signature bytes (null: no envelope).
VerifyInputs ==
    { << Raw(<<77>>), MslSignatureEnvelope_bytes(Raw(mslCrypto_sign(<<77>>))) >>,
      << Raw(<<0>>),  MslSignatureEnvelope_bytes(Raw(mslCrypto_sign(<<77>>))) >>,
      << Raw(<<77>>), NoVal >> }

\* An error a collaborator (signature envelope, key handle) reports.
CollaboratorError == Exc("MslCryptoException", "COLLABORATOR_ERROR")

\* --------------------------------------------- the context as a machine

ctxVars == << ctx, calls >>
vars == << ctx, calls, envPc, envFrom, envIn, envObj, envJson, envVersion, envOut >>

Call(op, data, signature, eff) ==
    [op |-> op, data |-> data, signature |-> signature,
     pc |-> eff.pc, arg |-> eff.arg, out |-> eff.out, prov |-> eff.prov]

\* A continuation that discards the private key of the context once it ran.
Continue_dropKey(i, eff) ==
    /\ calls' = [calls EXCEPT ![i] =
                    [@ EXCEPT !.pc = eff.pc, !.arg = eff.arg,
                              !.out = @ \o eff.out, !.prov = @ \o eff.prov]]
    /\ ctx' = [ctx EXCEPT !.privateKey = FALSE]
    /\ UNCHANGED envVars

\* A continuation that delivers to the callback of the latest invocation
\* (the callback kept in a place the invocations share).
Continue_latestCallback(i, eff) ==
    /\ calls' = [calls EXCEPT ![Len(calls)] =
                    [@ EXCEPT !.pc = eff.pc, !.arg = eff.arg,
                              !.out = @ \o eff.out, !.prov = @ \o eff.prov]]
    /\ UNCHANGED << ctx, envVars >>

\* Invocation i goes on by the effect eff of the handler that ran.
Continue(i, eff) ==
    /\ calls' = [calls EXCEPT ![i] =
                    [@ EXCEPT !.pc = eff.pc, !.arg = eff.arg,
                              !.out = @ \o eff.out, !.prov = @ \o eff.prov]]
    /\ UNCHANGED << ctx, envVars >>

Invoke(call) ==
    /\ Len(calls) < MaxCalls
    /\ calls' = Append(calls, call)
    /\ UNCHANGED << ctx, envVars >>

Waiting(i, op, pc) == i \in 1..Len(calls) /\ calls[i].op = op /\ calls[i].pc = pc

CtxInit ==
    /\ ctx \in { RsaCryptoContext_init(id, priv, pub, mode) :
                    id \in IdInputs, priv \in BOOLEAN, pub \in BOOLEAN, mode \in Mode }
    /\ calls = <<>>

Init == CtxInit /\ EnvIdle

InvokeEncrypt ==
    \E data \in EncryptInputs : Invoke(Call("encrypt", data, NoVal, encrypt(ctx, data)))
InvokeDecrypt ==
    \E data \in DecryptInputs : Invoke(Call("decrypt", data, NoVal, decrypt(ctx, data)))
InvokeWrap ==
    \E key \in WrapInputs : Invoke(Call("wrap", key, NoVal, wrap(ctx, key)))
InvokeUnwrap ==
    \E data \in UnwrapInputs : Invoke(Call("unwrap", data, NoVal, unwrap(ctx, data)))
InvokeSign ==
    \E data \in SignInputs : Invoke(Call("sign", data, NoVal, sign(ctx, data)))
InvokeVerify ==
    \E in \in VerifyInputs :
        Invoke(Call("verify", in[1], in[2], verify(ctx, in[1], in[2])))

\* The promise of the primitive resolves: oncomplete runs.
EncryptComplete(i) ==
    /\ Waiting(i, "encrypt", "provider")
    /\ Continue(i, encrypt_oncomplete(ctx, mslCrypto_encrypt(calls[i].arg.q)))
DecryptComplete(i) ==
    /\ Waiting(i, "decrypt", "provider")
    /\ Continue(i, decrypt_oncomplete(mslCrypto_decrypt(calls[i].arg.q)))
WrapComplete(i) ==
    /\ Waiting(i, "wrap", "provider")
    /\ Continue(i, wrap_oncomplete(mslCrypto_wrapKey(calls[i].arg.q)))
UnwrapComplete(i) ==
    /\ Waiting(i, "unwrap", "provider")
    /\ \E type \in RawKeyTypes :
          Continue(i, constructKey(type, mslCrypto_unwrapKey(calls[i].arg.q)))
SignComplete(i) ==
    /\ Waiting(i, "sign", "provider")
    /\ Continue(i, sign_oncomplete(mslCrypto_sign(calls[i].arg.q)))
VerifyComplete(i) ==
    /\ Waiting(i, "verify", "provider")
    /\ Continue(i, verify_oncomplete(mslCrypto_verify(calls[i].arg.q, calls[i].data.q)))

\* The promise of the primitive rejects: onerror runs.
onerror(op) ==
    CASE op = "encrypt" -> encrypt_onerror
      [] op = "decrypt" -> decrypt_onerror
      [] op = "wrap"    -> wrap_onerror
      [] op = "unwrap"  -> unwrap_onerror
      [] op = "sign"    -> sign_onerror
      [] OTHER          -> verify_onerror
ProviderReject(i) ==
    /\ i \in 1..Len(calls)
    /\ calls[i].pc = "provider"
    /\ Continue(i, onerror(calls[i].op))

\* MslSignatureEnvelope$create calls back.
SignatureEnvelopeCreated(i) ==
    /\ Waiting(i, "sign", "sigcreate")
    /\ Continue(i, sign_result(calls[i].arg))
SignatureEnvelopeCreateError(i) ==
    /\ Waiting(i, "sign", "sigcreate")
    /\ Continue(i, callback_error(CollaboratorError))

\* MslSignatureEnvelope$parse calls back: with the envelope of the signature
\* bytes, or with an error when there are none.
SignatureEnvelopeParsed(i) ==
    /\ Waiting(i, "verify", "sigparse")
    /\ calls[i].arg.k = "raw"
    /\ Continue(i, verify_result(calls[i].arg))
SignatureEnvelopeParseError(i) ==
    /\ Waiting(i, "verify", "sigparse")
    /\ calls[i].arg.k # "raw"
    /\ Continue(i, callback_error(CollaboratorError))

\* CipherKey$create, PublicKey$create or PrivateKey$create calls back.
KeyHandleCreated(i) ==
    /\ Waiting(i, "unwrap", "keycreate")
    /\ Continue(i, Eff(<< Result(calls[i].arg) >>, "done", NoVal, <<>>))
KeyHandleError(i) ==
    /\ Waiting(i, "unwrap", "keycreate")
    /\ Continue(i, callback_error(CollaboratorError))

\* The steps that complete invocation i.
Step(i) ==
    \/ EncryptComplete(i)
    \/ DecryptComplete(i)
    \/ WrapComplete(i)
    \/ UnwrapComplete(i)
    \/ SignComplete(i)
    \/ VerifyComplete(i)
    \/ ProviderReject(i)
    \/ SignatureEnvelopeCreated(i)
    \/ SignatureEnvelopeCreateError(i)
    \/ SignatureEnvelopeParsed(i)
    \/ SignatureEnvelopeParseError(i)
    \/ KeyHandleCreated(i)
    \/ KeyHandleError(i)

Next ==
    \/ InvokeEncrypt
    \/ InvokeDecrypt
    \/ InvokeWrap
    \/ InvokeUnwrap
    \/ InvokeSign
    \/ InvokeVerify
    \/ \E i \in 1..MaxCalls : Step(i)

Spec == Init /\ [][Next]_vars

\* Every pending promise settles and every collaborator calls back.
LiveSpec == Spec /\ WF_vars(\E i \in 1..MaxCalls : Step(i))

\* The codec alone: the context is constructed and not used.
EnvInit ==
    /\ EnvIdle
    /\ ctx = RsaCryptoContext_init("k1", TRUE, TRUE, ENCRYPT_DECRYPT_OAEP)
    /\ calls = <<>>

EnvSpec == EnvInit /\ [][EnvNext]_vars

\* ------------------------------------------------------------------ claims

CallIds == 1..Len(calls)

NotSupported(op) ==
    CASE op = "encrypt" -> MslCryptoException("ENCRYPT_NOT_SUPPORTED")
      [] op = "decrypt" -> MslCryptoException("DECRYPT_NOT_SUPPORTED")
      [] op = "wrap"    -> MslCryptoException("WRAP_NOT_SUPPORTED")
      [] op = "unwrap"  -> MslCryptoException("UNWRAP_NOT_SUPPORTED")
      [] op = "sign"    -> MslCryptoException("SIGN_NOT_SUPPORTED")
      [] OTHER          -> MslCryptoException("VERIFY_NOT_SUPPORTED")

\* The operation needs a key the context lacks.
KeyMissing(op) ==
    \/ op \in {"encrypt", "wrap", "verify"} /\ ~ctx.publicKey
    \/ op \in {"decrypt", "unwrap", "sign"} /\ ~ctx.privateKey

\* The selector of the operation's group is not the null-op.
SelectorActive(op) ==
    CASE op \in {"encrypt", "decrypt"} -> ctx.transform # NULL_OP
      [] op \in {"wrap", "unwrap"}     -> ctx.wrapTransform # NULL_OP
      [] OTHER                         -> ctx.algo # NULL_OP

\* What an operation with an inactive selector delivers.
PassThrough(call) ==
    CASE call.op \in {"encrypt", "decrypt"} -> call.data
      [] call.op = "sign"                   -> Raw(<<>>)
      [] OTHER                              -> BoolVal(TRUE)

C2_EventuallyOutcome ==
    \A i \in 1..MaxCalls :
        []<>(Len(calls) >= i => Len(calls[i].out) >= 1)

\* An unwrap went through the primitive and the classification of the raw
\* key and has delivered its outcome.
C2_Witness ==
    \E i \in CallIds :
        /\ calls[i].op = "unwrap" /\ calls[i].prov = << "unwrapKey" >>
        /\ calls[i].pc = "done" /\ Len(calls[i].out) = 1

\* C3: with an inactive wrap transform, or without the key they need, wrap and
\* unwrap deliver their not-supported error and nothing else, and the
\* primitive is not invoked.
C3_WrapUnwrapNeverPassThrough ==
    \A i \in CallIds :
        (/\ calls[i].op \in {"wrap", "unwrap"}
         /\ (ctx.wrapTransform = NULL_OP \/ KeyMissing(calls[i].op)))
        => /\ calls[i].out = << Error(NotSupported(calls[i].op)) >>
           /\ calls[i].prov = <<>>
           /\ calls[i].pc = "done"

\* A context holding both keys, its wrap transform inactive, has refused a wrap
\* and an unwrap.
C3_Witness ==
    /\ ctx.wrapTransform = NULL_OP /\ ctx.publicKey /\ ctx.privateKey
    /\ \E i, j \in CallIds :
          /\ calls[i].op = "wrap"
          /\ calls[i].out = << Error(MslCryptoException("WRAP_NOT_SUPPORTED")) >>
          /\ calls[j].op = "unwrap"
          /\ calls[j].out = << Error(MslCryptoException("UNWRAP_NOT_SUPPORTED")) >>

\* The iv after a round trip: the bytes given, or none when none was given.
RoundTripIv(given, parsed) ==
    IF given.t = "bytes" THEN parsed = given ELSE parsed.t \in {"null", "undefined"}

\* C4: an envelope created from a key ID (a string that is no cipher
\* specification), serialized and parsed with no version or with V1 is a
\* version 1 envelope with the same key ID, the same iv (none when none was
\* given) and the same ciphertext.
C4_RoundTripV1 ==
    (/\ envPc = "parsed" /\ envFrom = "create"
     /\ envIn.keyIdOrSpec.s \notin MslConstants_CipherSpec
     /\ envVersion \in {Null, Num(V1)})
    => /\ envOut.ok
       /\ envOut.env.version = V1
       /\ envOut.env.keyId = envIn.keyIdOrSpec
       /\ RoundTripIv(envIn.iv, envOut.env.iv)
       /\ envOut.env.ciphertext = envIn.ciphertext

\* C5: an envelope created from a recognized cipher specification, serialized
\* and parsed with no version or with V2 is a version 2 envelope with the same
\* cipher specification, iv and ciphertext.
C5_RoundTripV2 ==
    (/\ envPc = "parsed" /\ envFrom = "create"
     /\ envIn.keyIdOrSpec.s \in MslConstants_CipherSpec
     /\ envVersion \in {Null, Num(V2)})
    => /\ envOut.ok
       /\ envOut.env.version = V2
       /\ envOut.env.cipherSpec = envIn.keyIdOrSpec
       /\ RoundTripIv(envIn.iv, envOut.env.iv)
       /\ envOut.env.ciphertext = envIn.ciphertext

\* A version 2 object, parsed as one, whose cipher specification is a string
\* that names no recognized one.
UnknownSpecV2 ==
    /\ envPc = "parsed"
    /\ envVersion \in {Null, Num(V2)}
    /\ envJson.version = Num(V2)
    /\ TypeOf(envJson.cipherspec) = "string"
    /\ envJson.cipherspec.s \notin MslConstants_CipherSpec

\* C6 as claimed: the object {"version":2,"cipherspec":"UNKNOWN"}, and every
\* version 2 object with an unrecognized cipher specification, fails with
\* UNIDENTIFIED_CIPHERSPEC.
C6_Original ==
    UnknownSpecV2
    => (~envOut.ok /\ envOut.exc = MslCryptoException("UNIDENTIFIED_CIPHERSPEC"))

\* C6: a version 2 object with an unrecognized cipher specification fails
\* with UNIDENTIFIED_CIPHERSPEC when its ciphertext is a string and its iv is
\* absent or a string; without a ciphertext, as in
\* {"version":2,"cipherspec":"UNKNOWN"}, it fails with JSON_PARSE_ERROR.
C6_Amended ==
    UnknownSpecV2
    => /\ ~envOut.ok
       /\ (TypeOf(envJson.ciphertext) = "string"
           /\ (envJson.iv = Undef \/ TypeOf(envJson.iv) = "string"))
          => envOut.exc = MslCryptoException("UNIDENTIFIED_CIPHERSPEC")
       /\ envJson.ciphertext = Undef
          => envOut.exc = Exc("MslEncodingException", "JSON_PARSE_ERROR")

\* A complete version 2 object with the cipher specification "UNKNOWN" was
\* refused for its cipher specification.
C6_Witness ==
    /\ UnknownSpecV2
    /\ envJson.cipherspec = Str("UNKNOWN")
    /\ TypeOf(envJson.ciphertext) = "string"
    /\ base64_valid(envJson.ciphertext)
    /\ envOut.exc = MslCryptoException("UNIDENTIFIED_CIPHERSPEC")

\* C7: with no version given to parse, a version field that is a number other
\* than 1 and 2 makes parse fail with UNIDENTIFIED_CIPHERTEXT_ENVELOPE.
C7_UnrecognizedVersionFails ==
    (/\ envPc = "parsed" /\ envVersion = Null
     /\ envJson.version.t = "number"
     /\ envJson.version.n \notin Version)
    => (/\ ~envOut.ok
        /\ envOut.exc = MslCryptoException("UNIDENTIFIED_CIPHERTEXT_ENVELOPE"))

\* A key that must be a string is absent or not one.
NotString(v) == TypeOf(v) # "string"
\* An iv that is present and not a string.
IvNotString(v) == v.t \notin {"undefined", "null"} /\ TypeOf(v) # "string"

\* C8: a version 1 object with keyid, ciphertext or sha256 absent or not a
\* string, or with an iv that is present and not a string, fails with
\* JSON_PARSE_ERROR; so does a version 2 object with cipherspec or ciphertext
\* absent or not a string, or such an iv.
C8_FieldValidation ==
    /\ (/\ envPc = "parsed"
        /\ (envVersion = Num(V1) \/ (envVersion = Null /\ envJson.version = Undef))
        /\ \/ NotString(envJson.keyid)
           \/ NotString(envJson.ciphertext)
           \/ NotString(envJson.sha256)
           \/ IvNotString(envJson.iv))
       => (~envOut.ok /\ envOut.exc = Exc("MslEncodingException", "JSON_PARSE_ERROR"))
    /\ (/\ envPc = "parsed" /\ envVersion \in {Null, Num(V2)}
        /\ envJson.version = Num(V2)
        /\ \/ NotString(envJson.cipherspec)
           \/ NotString(envJson.ciphertext)
           \/ IvNotString(envJson.iv))
       => (~envOut.ok /\ envOut.exc = Exc("MslEncodingException", "JSON_PARSE_ERROR"))

\* C9 as claimed: an operation whose key the context lacks delivers its
\* not-supported error in every mode.
C9_Original ==
    \A i \in CallIds :
        KeyMissing(calls[i].op)
        => calls[i].out = << Error(NotSupported(calls[i].op)) >>

\* C9: an operation whose key the context lacks delivers its not-supported
\* error when its selector is active, and wrap and unwrap in every mode; with
\* an inactive selector encrypt, decrypt, sign and verify deliver their
\* pass-through result.  The primitive is invoked in neither case.
C9_Amended ==
    \A i \in CallIds :
        KeyMissing(calls[i].op)
        => /\ calls[i].prov = <<>>
           /\ calls[i].pc = "done"
           /\ calls[i].out =
                 IF SelectorActive(calls[i].op) \/ calls[i].op \in {"wrap", "unwrap"}
                 THEN << Error(NotSupported(calls[i].op)) >>
                 ELSE << Result(PassThrough(calls[i])) >>

\* A context without keys, its data transform active, has refused encrypt and
\* passed sign through.
C9_Witness ==
    /\ ~ctx.publicKey /\ ~ctx.privateKey /\ ctx.transform # NULL_OP
    /\ \E i, j \in CallIds :
          /\ calls[i].op = "encrypt"
          /\ calls[i].out = << Error(MslCryptoException("ENCRYPT_NOT_SUPPORTED")) >>
          /\ calls[j].op = "sign"
          /\ calls[j].out = << Result(Raw(<<>>)) >>

\* C10 as claimed: in an encrypt/decrypt mode encrypt of no bytes delivers its
\* input, whatever keys the context holds, and the primitive is not invoked.
C10_Original ==
    \A i \in CallIds :
        (calls[i].op = "encrypt" /\ ctx.transform # NULL_OP /\ IsEmpty(calls[i].data))
        => (calls[i].out = << Result(calls[i].data) >> /\ calls[i].prov = <<>>)

\* C10: in an encrypt/decrypt mode encrypt of no bytes delivers its input when
\* the context holds a public key and ENCRYPT_NOT_SUPPORTED when it holds
\* none; the primitive is invoked in neither case.
C10_Amended ==
    \A i \in CallIds :
        (calls[i].op = "encrypt" /\ ctx.transform # NULL_OP /\ IsEmpty(calls[i].data))
        => /\ calls[i].prov = <<>>
           /\ calls[i].pc = "done"
           /\ calls[i].out =
                 IF ctx.publicKey THEN << Result(calls[i].data) >>
                 ELSE << Error(MslCryptoException("ENCRYPT_NOT_SUPPORTED")) >>

\* A context with a public key, its data transform active, has returned the
\* empty input of encrypt.
C10_Witness ==
    /\ ctx.publicKey /\ ctx.transform # NULL_OP
    /\ \E i \in CallIds :
          /\ calls[i].op = "encrypt" /\ IsEmpty(calls[i].data)
          /\ calls[i].out = << Result(Raw(<<>>)) >>

\* A context in OAEP encrypt/decrypt mode holding a public key and no private
\* key.
OaepPublicOnly ==
    ctx.transform = "RSA-OAEP" /\ ctx.publicKey /\ ~ctx.privateKey

\* C11: in a context in OAEP encrypt/decrypt mode with a public key and no
\* private key, decrypt of any input (no bytes, bytes that are no JSON text, a
\* well-formed envelope) delivers DECRYPT_NOT_SUPPORTED and nothing else
\* without invoking the primitive, and encrypt of non-empty data invokes the
\* primitive and, when its promise resolves, delivers a result.
C11_PublicOnlyOaep ==
    /\ [](OaepPublicOnly =>
            \A i \in CallIds :
                /\ calls[i].op = "decrypt" =>
                      /\ calls[i].out = << Error(MslCryptoException("DECRYPT_NOT_SUPPORTED")) >>
                      /\ calls[i].prov = <<>>
                      /\ calls[i].pc = "done"
                /\ (calls[i].op = "encrypt" /\ ~IsEmpty(calls[i].data)) =>
                      calls[i].prov = << "encrypt" >>)
    /\ [][OaepPublicOnly =>
            \A i \in CallIds :
                EncryptComplete(i) =>
                    /\ Len(calls'[i].out) = 1
                    /\ calls'[i].out[1].kind = "result"
                    /\ calls'[i].pc = "done"]_vars

\* Such a context has delivered the result of an encrypt and has refused to
\* decrypt a well-formed envelope.
C11_Witness ==
    /\ OaepPublicOnly
    /\ \E i, j \in CallIds :
          /\ calls[i].op = "encrypt" /\ ~IsEmpty(calls[i].data)
          /\ Len(calls[i].out) = 1 /\ calls[i].out[1].kind = "result"
          /\ calls[j].op = "decrypt" /\ calls[j].data = EnvelopeText(ctx.id, <<77>>)
          /\ calls[j].out = << Error(MslCryptoException("DECRYPT_NOT_SUPPORTED")) >>

\* A context in sign/verify mode holding both keys.
SignVerifyBoth ==
    ctx.algo # NULL_OP /\ ctx.publicKey /\ ctx.privateKey

\* Invocation i has received exactly one outcome, a result.
HasResult(i) == Len(calls[i].out) = 1 /\ calls[i].out[1].kind = "result"

\* C12: in a context in sign/verify mode with both keys, a verify given the
\* bytes a sign delivered hands the primitive the signature embedded in that
\* envelope, and when the primitive's promise resolves it delivers a result:
\* true when its data is the data that was signed, false when it is other data.
C12_VerifyOfSign ==
    /\ [](SignVerifyBoth =>
            \A i, j \in CallIds :
                (/\ calls[i].op = "sign" /\ HasResult(i)
                 /\ calls[j].op = "verify"
                 /\ calls[j].signature = calls[i].out[1].val)
                => /\ calls[j].pc = "provider" =>
                        /\ calls[j].prov = << "verify" >>
                        /\ calls[j].arg = MslSignatureEnvelope_signature(calls[i].out[1].val)
                   /\ HasResult(j) =>
                        calls[j].out[1].val = BoolVal(calls[j].data = calls[i].data))
    /\ [][SignVerifyBoth =>
            \A j \in CallIds : VerifyComplete(j) => HasResult(j)']_vars

\* A sign delivered its envelope and a verify of other data with those bytes
\* delivered false.
C12_Witness ==
    /\ SignVerifyBoth
    /\ \E i, j \in CallIds :
          /\ calls[i].op = "sign" /\ HasResult(i)
          /\ calls[j].op = "verify" /\ calls[j].signature = calls[i].out[1].val
          /\ calls[j].data # calls[i].data
          /\ calls[j].out = << Result(BoolVal(FALSE)) >>

\* The class of key handle made for a raw key of a recognized type.
KeyClass(type) ==
    CASE type = "secret"  -> "CipherKey"
      [] type = "public"  -> "PublicKey"
      [] OTHER            -> "PrivateKey"

\* C13: when unwrapKey resolves with a raw key, a key of type "secret" is
\* handed to the cipher-key constructor, "public" to the public-key
\* constructor and "private" to the private-key constructor, with nothing
\* delivered yet; a key of any other type ("bogus") delivers UNSUPPORTED_KEY
\* and no key handle.  A key handle an unwrap delivers is of one of the three
\* classes.
C13_UnwrapClassifies ==
    /\ [][\A i \in CallIds, type \in RawKeyTypes :
            (/\ Waiting(i, "unwrap", "provider")
             /\ Continue(i, constructKey(type, mslCrypto_unwrapKey(calls[i].arg.q))))
            => IF type \in {"secret", "public", "private"}
               THEN /\ calls'[i].pc = "keycreate"
                    /\ calls'[i].arg = KeyOf(KeyClass(type), mslCrypto_unwrapKey(calls[i].arg.q))
                    /\ calls'[i].out = <<>>
               ELSE /\ calls'[i].pc = "done"
                    /\ calls'[i].out = << Error(MslCryptoException("UNSUPPORTED_KEY")) >>]_vars
    /\ [](\A i \in CallIds :
            (calls[i].op = "unwrap" /\ Len(calls[i].out) >= 1 /\ calls[i].out[1].kind = "result")
            => /\ calls[i].out[1].val.k = "key"
               /\ calls[i].out[1].val.s \in {"CipherKey", "PublicKey", "PrivateKey"})

\* One unwrap has delivered a cipher-key handle and another UNSUPPORTED_KEY.
C13_Witness ==
    \E i, j \in CallIds :
        /\ calls[i].op = "unwrap" /\ HasResult(i)
        /\ calls[i].out[1].val = KeyOf("CipherKey", <<77>>)
        /\ calls[j].op = "unwrap" /\ calls[j].prov = << "unwrapKey" >>
        /\ calls[j].out = << Error(MslCryptoException("UNSUPPORTED_KEY")) >>

\* The context is one that init constructs in the given mode.
ConstructedIn(mode) ==
    \E id \in IdInputs, priv \in BOOLEAN, pub \in BOOLEAN :
        ctx = RsaCryptoContext_init(id, priv, pub, mode)

\* The selectors of the context that are not the null-op.
ActiveSelectors ==
    { sel \in {"transform", "wrapTransform", "algo"} : ctx[sel] # NULL_OP }

\* C14: a context constructed in a mode has exactly one active selector, the
\* one of the mode's group: the data transform in the two encrypt/decrypt modes
\* (RSA-OAEP for OAEP, RSAES for PKCS#1), the wrap transform in the two
\* wrap/unwrap modes, the signature algorithm in sign/verify mode.  It stays so
\* while the context is used.
C14_OneActiveSelector ==
    /\ Cardinality(ActiveSelectors) = 1
    /\ ConstructedIn(ENCRYPT_DECRYPT_OAEP) =>
          (ActiveSelectors = {"transform"} /\ ctx.transform = "RSA-OAEP")
    /\ ConstructedIn(ENCRYPT_DECRYPT_PKCS1) =>
          (ActiveSelectors = {"transform"} /\ ctx.transform = "RSAES")
    /\ ConstructedIn(WRAP_UNWRAP_OAEP) =>
          (ActiveSelectors = {"wrapTransform"} /\ ctx.wrapTransform = "RSA-OAEP")
    /\ ConstructedIn(WRAP_UNWRAP_PKCS1) =>
          (ActiveSelectors = {"wrapTransform"} /\ ctx.wrapTransform = "RSAES")
    /\ ConstructedIn(SIGN_VERIFY) =>
          (ActiveSelectors = {"algo"} /\ ctx.algo = "RSASSA-SHA256")

\* A context constructed in PKCS#1 wrap/unwrap mode has been used for two
\* invocations.
C14_Witness ==
    /\ ConstructedIn(WRAP_UNWRAP_PKCS1)
    /\ ctx.wrapTransform = "RSAES"
    /\ Len(calls) = MaxCalls

\* Exactly one of keyId and cipherSpec is set, the one of the version.
VersionMatches(env) ==
    /\ env.version \in Version
    /\ env.version = V1 => (TypeOf(env.keyId) = "string" /\ env.cipherSpec = Null)
    /\ env.version = V2 =>
          /\ TypeOf(env.cipherSpec) = "string"
          /\ env.cipherSpec.s \in MslConstants_CipherSpec
          /\ env.keyId = Null

\* C15: the envelope create delivers for a string, and every envelope parse
\* delivers, has version 1 or 2 and exactly one of keyId and cipherSpec set:
\* version 1 a keyId (a string) and a null cipherSpec, version 2 a recognized
\* cipherSpec and a null keyId.
C15_VersionMatchesFields ==
    /\ (envPc # "idle" /\ envFrom = "create") => VersionMatches(envObj)
    /\ (envPc = "parsed" /\ envOut.ok) => VersionMatches(envOut.env)

\* parse delivered a version 2 envelope for an object a peer gave.
C15_Witness ==
    /\ envPc = "parsed" /\ envFrom = "given" /\ envOut.ok
    /\ envOut.env.version = V2
    /\ envOut.env.cipherSpec = Str("AES/CBC/PKCS5Padding")

\* C16: in a context in an encrypt/decrypt mode with a public key, whatever
\* its identity, the result of an encrypt of non-empty data is the text of a
\* version 1 envelope: its keyid is the identity of the context, its
\* ciphertext the Base64 text of what the primitive resolved with, and it has
\* no iv, no version and no cipherspec.
C16_EncryptDeliversV1Envelope ==
    \A i \in CallIds :
        (/\ calls[i].op = "encrypt" /\ ctx.transform # NULL_OP /\ ctx.publicKey
         /\ ~IsEmpty(calls[i].data) /\ HasResult(i))
        => LET val == calls[i].out[1].val IN
           /\ val.k = "json"
           /\ val.o.isObj
           /\ val.o.version = Undef
           /\ val.o.cipherspec = Undef
           /\ val.o.keyid = Str(ctx.id)
           /\ val.o.iv = Undef
           /\ val.o.ciphertext = Txt(base64_encode(mslCrypto_encrypt(calls[i].data.q)))

\* What parse, forced to V1, makes of the input of a decrypt.
ParsedV1(data) == MslCiphertextEnvelope_parse(data.o, Num(V1))

\* The input of a decrypt is the text of an envelope parse delivers.
IsEnvelopeText(data) == data.k = "json" /\ ParsedV1(data).ok

\* C17: in a context with an active data transform and a private key, a
\* decrypt whose input parses (as V1) to an envelope with a key ID other than
\* the identity of the context delivers ENVELOPE_KEY_ID_MISMATCH and nothing
\* else and does not invoke the primitive; the primitive is invoked only for
\* an input that parses to an envelope whose key ID is the identity, and is
\* given that envelope's ciphertext.
C17_KeyIdChecked ==
    \A i \in CallIds :
        (calls[i].op = "decrypt" /\ ctx.transform # NULL_OP /\ ctx.privateKey)
        => /\ (/\ IsEnvelopeText(calls[i].data)
                /\ ParsedV1(calls[i].data).env.keyId # Str(ctx.id))
               => /\ calls[i].out = << Error(MslCryptoException("ENVELOPE_KEY_ID_MISMATCH")) >>
                  /\ calls[i].prov = <<>>
                  /\ calls[i].pc = "done"
           /\ calls[i].prov # <<>>
               => /\ calls[i].prov = << "decrypt" >>
                  /\ IsEnvelopeText(calls[i].data)
                  /\ ParsedV1(calls[i].data).env.keyId = Str(ctx.id)
           /\ calls[i].pc = "provider"
               => calls[i].arg = Raw(ParsedV1(calls[i].data).env.ciphertext.q)

\* A context has refused the envelope of another context and has handed the
\* ciphertext of its own envelope to the primitive.
C17_Witness ==
    /\ ctx.transform # NULL_OP /\ ctx.privateKey /\ ctx.id = "k1"
    /\ \E i, j \in CallIds :
          /\ calls[i].op = "decrypt" /\ calls[i].data = EnvelopeText("k2", <<77>>)
          /\ calls[i].out = << Error(MslCryptoException("ENVELOPE_KEY_ID_MISMATCH")) >>
          /\ calls[j].op = "decrypt" /\ calls[j].data = EnvelopeText("k1", <<77>>)
          /\ calls[j].prov = << "decrypt" >>

\* The error of its own an operation delivers when the primitive fails.
OperationError(op) ==
    CASE op = "encrypt" -> MslCryptoException("ENCRYPT_ERROR")
      [] op = "decrypt" -> MslCryptoException("DECRYPT_ERROR")
      [] op = "wrap"    -> MslCryptoException("WRAP_ERROR")
      [] op = "unwrap"  -> MslCryptoException("UNWRAP_ERROR")
      [] OTHER          -> MslCryptoException("SIGNATURE_ERROR")

\* C18: when the promise of the primitive rejects, the invocation ends with
\* one outcome, the error of its operation (ENCRYPT_ERROR, DECRYPT_ERROR,
\* WRAP_ERROR, UNWRAP_ERROR, SIGNATURE_ERROR for sign and for verify): no
\* result and no other error value is delivered.
C18_RejectionReclassified ==
    [][\A i \in CallIds :
          ProviderReject(i)
          => /\ calls'[i].out = << Error(OperationError(calls[i].op)) >>
             /\ calls'[i].pc = "done"]_vars

\* The primitive failed a sign and a verify of one context.
C18_Witness ==
    \E i, j \in CallIds :
        /\ calls[i].op = "sign" /\ calls[i].prov = << "sign" >>
        /\ calls[i].out = << Error(MslCryptoException("SIGNATURE_ERROR")) >>
        /\ calls[j].op = "verify" /\ calls[j].prov = << "verify" >>
        /\ calls[j].out = << Error(MslCryptoException("SIGNATURE_ERROR")) >>

\* C19: in a context whose data transform is inactive encrypt and decrypt
\* deliver their input unchanged; in a context whose signature algorithm is
\* inactive sign delivers an empty byte sequence and verify delivers true, for
\* every data and every signature bytes (none included).  That is the only
\* outcome, the primitive is not invoked, and the keys the context holds make
\* no difference.
C19_NullOpPassThrough ==
    \A i \in CallIds :
        /\ (calls[i].op \in {"encrypt", "decrypt"} /\ ctx.transform = NULL_OP)
           => /\ calls[i].out = << Result(calls[i].data) >>
              /\ calls[i].prov = <<>>
              /\ calls[i].pc = "done"
        /\ (calls[i].op = "sign" /\ ctx.algo = NULL_OP)
           => /\ calls[i].out = << Result(Raw(<<>>)) >>
              /\ calls[i].prov = <<>>
              /\ calls[i].pc = "done"
        /\ (calls[i].op = "verify" /\ ctx.algo = NULL_OP)
           => /\ calls[i].out = << Result(BoolVal(TRUE)) >>
              /\ calls[i].prov = <<>>
              /\ calls[i].pc = "done"

\* A context without keys, its signature algorithm and data transform
\* inactive, has verified data without a signature envelope and has returned
\* the input of a decrypt that is no envelope.
C19_Witness ==
    /\ ~ctx.publicKey /\ ~ctx.privateKey
    /\ ctx.algo = NULL_OP /\ ctx.transform = NULL_OP
    /\ \E i, j \in CallIds :
          /\ calls[i].op = "verify" /\ calls[i].signature = NoVal
          /\ calls[i].out = << Result(BoolVal(TRUE)) >>
          /\ calls[j].op = "decrypt" /\ calls[j].data = Raw(<<77>>)
          /\ calls[j].out = << Result(Raw(<<77>>)) >>

\* The placeholder "AA==" of the sha256 field.
Sha256Placeholder == Txt(<<0, 0, B64Pad, B64Pad>>)

\* The iv field of the serialization of an envelope created with the iv given:
\* there is one exactly when an iv was given, its Base64 text.
IvEmitted(given, field) ==
    IF given = Null THEN field = Undef
    ELSE field = Txt(base64_encode(given.q))

C21_ContextImmutable ==
    [][ /\ ctx'.id = ctx.id
        /\ ctx'.privateKey = ctx.privateKey
        /\ ctx'.publicKey = ctx.publicKey
        /\ ctx'.transform = ctx.transform
        /\ ctx'.wrapTransform = ctx.wrapTransform
        /\ ctx'.algo = ctx.algo ]_vars

\* A context holding its private key has completed a decrypt through the
\* primitive, has had another invocation fail, and still holds the key.
C21_Witness ==
    /\ ctx.privateKey /\ ctx.transform # NULL_OP
    /\ \E i, j \in CallIds :
          /\ calls[i].op = "decrypt" /\ calls[i].prov = << "decrypt" >> /\ HasResult(i)
          /\ calls[j].pc = "done" /\ Len(calls[j].out) = 1
          /\ calls[j].out[1].kind = "error"

\* The result an invocation delivers after the primitive resolved, from its
\* own input alone.
OwnResult(call) ==
    CASE call.op = "encrypt" -> EnvelopeText(ctx.id, call.data.q)
      [] call.op = "decrypt" ->
            Raw(mslCrypto_decrypt(ParsedV1(call.data).env.ciphertext.q))
      [] call.op = "wrap"    -> Raw(mslCrypto_wrapKey(call.data.q))
      [] call.op = "sign"    ->
            MslSignatureEnvelope_bytes(Raw(mslCrypto_sign(call.data.q)))
      [] call.op = "verify"  ->
            BoolVal(mslCrypto_verify(
                MslSignatureEnvelope_signature(call.signature).q, call.data.q))
      [] OTHER -> NoVal

\* C22: invocations on one context are independent.  A continuation of an
\* invocation changes the record of that invocation only and a new invocation
\* changes no earlier one, in whatever order the promises settle; and the
\* result an invocation delivers after the primitive resolved is the one its
\* own input determines (for unwrap, a key handle over the key unwrapped from
\* its own data).
C22_InvocationsIndependent ==
    /\ [][ /\ (\A i \in CallIds :
                  Step(i) => (\A j \in CallIds \ {i} : calls'[j] = calls[j]))
            /\ (Len(calls') > Len(calls) =>
                  (\A k \in CallIds : calls'[k] = calls[k])) ]_vars
    /\ [](\A i \in CallIds :
            (HasResult(i) /\ calls[i].prov # <<>>)
            => IF calls[i].op = "unwrap"
               THEN /\ calls[i].out[1].val.k = "key"
                    /\ calls[i].out[1].val.q = mslCrypto_unwrapKey(calls[i].data.q)
               ELSE calls[i].out[1].val = OwnResult(calls[i]))

\* Of two verifies of the same signature in flight together, the later one,
\* of other data, has delivered false while the earlier one still waits for
\* the primitive.
C22_Witness ==
    /\ Len(calls) = 2
    /\ calls[1].op = "verify" /\ calls[1].pc = "provider" /\ calls[1].out = <<>>
    /\ calls[2].op = "verify" /\ calls[2].prov = << "verify" >>
    /\ calls[2].data # calls[1].data
    /\ calls[2].out = << Result(BoolVal(FALSE)) >>

\* C23: in a context in an encrypt/decrypt mode holding both keys, whatever
\* its identity, a decrypt of what an encrypt of non-empty data delivered is
\* accepted (it parses as V1 and passes the key ID check, so the primitive is
\* invoked) and a result it delivers is the data that was encrypted.
C23_EncryptDecryptRoundTrip ==
    (ctx.transform # NULL_OP /\ ctx.publicKey /\ ctx.privateKey)
    => \A i, j \in CallIds :
          (/\ calls[i].op = "encrypt" /\ ~IsEmpty(calls[i].data) /\ HasResult(i)
           /\ calls[j].op = "decrypt" /\ calls[j].data = calls[i].out[1].val)
          => /\ calls[j].prov = << "decrypt" >>
             /\ HasResult(j) => calls[j].out[1].val = calls[i].data
             /\ calls[j].pc = "done" =>
                   calls[j].out \in { << Result(calls[i].data) >>,
                                      << Error(MslCryptoException("DECRYPT_ERROR")) >> }

\* Invocation i ended with the error of the given code, the primitive not
\* invoked.
RefusedWith(i, code) ==
    /\ calls[i].out = << Error(MslCryptoException(code)) >>
    /\ calls[i].prov = <<>>
    /\ calls[i].pc = "done"

\* C24: decrypt delivers no MslEncodingException.  In a context with an active
\* data transform and a private key, bytes that are no JSON text fail with
\* CIPHERTEXT_ENVELOPE_PARSE_ERROR, a JSON object that fails the validation of
\* its version 1 fields (an encoding exception of parse) fails with
\* CIPHERTEXT_ENVELOPE_ENCODE_ERROR, and a fault of parse that is no MSL
\* exception fails with DECRYPT_ERROR; the primitive is invoked in none of
\* these cases.
C24_DecryptErrorsReclassified ==
    \A i \in CallIds :
        calls[i].op = "decrypt"
        => /\ \A k \in 1..Len(calls[i].out) :
                 calls[i].out[k].exc.cls # "MslEncodingException"
           /\ (ctx.transform # NULL_OP /\ ctx.privateKey)
              => /\ (calls[i].data.k = "raw" /\ ~IsEmpty(calls[i].data))
                    => RefusedWith(i, "CIPHERTEXT_ENVELOPE_PARSE_ERROR")
                 /\ (/\ calls[i].data.k = "json"
                     /\ ~ParsedV1(calls[i].data).ok
                     /\ ParsedV1(calls[i].data).exc.cls = "MslEncodingException")
                    => RefusedWith(i, "CIPHERTEXT_ENVELOPE_ENCODE_ERROR")
                 /\ (/\ calls[i].data.k = "json"
                     /\ ~ParsedV1(calls[i].data).ok
                     /\ ~IsMslException(ParsedV1(calls[i].data).exc))
                    => RefusedWith(i, "DECRYPT_ERROR")

\* A context has refused the JSON text null with DECRYPT_ERROR and an object
\* without the version 1 fields with CIPHERTEXT_ENVELOPE_ENCODE_ERROR.
C24_Witness ==
    /\ ctx.transform # NULL_OP /\ ctx.privateKey
    /\ \E i, j \in CallIds :
          /\ calls[i].op = "decrypt" /\ calls[i].data = JsonText(NoJson)
          /\ RefusedWith(i, "DECRYPT_ERROR")
          /\ calls[j].op = "decrypt"
          /\ ParsedV1(calls[j].data).exc = Exc("MslEncodingException", "JSON_PARSE_ERROR")
          /\ calls[j].data.k = "json"
          /\ RefusedWith(j, "CIPHERTEXT_ENVELOPE_ENCODE_ERROR")

\* A parsed JSON object carries valid version 1 fields: keyid, ciphertext and
\* sha256 are strings, the iv is absent or a string, and the Base64 decodes.
ValidV1Fields ==
    /\ TypeOf(envJson.keyid) = "string"
    /\ TypeOf(envJson.sha256) = "string"
    /\ TypeOf(envJson.ciphertext) = "string" /\ base64_valid(envJson.ciphertext)
    /\ \/ envJson.iv = Undef
       \/ TypeOf(envJson.iv) = "string" /\ base64_valid(envJson.iv)

\* parse has failed with the MslCryptoException of the given code.
ParseRefused(code) == ~envOut.ok /\ envOut.exc = MslCryptoException(code)

\* C25: a version given to parse selects the validation alone.  Given V1, an
\* object with valid version 1 fields parses as a version 1 envelope of its
\* keyid whatever its version field says; given V2, an object whose version
\* field is not 2 fails with UNIDENTIFIED_CIPHERTEXT_ENVELOPE; given a version
\* that is neither 1 nor 2, parse fails with UNSUPPORTED_CIPHERTEXT_ENVELOPE;
\* and a serialized version 2 envelope parsed as V1 is refused.
C25_HintSelectsBranch ==
    envPc = "parsed"
    => /\ (envVersion = Num(V1) /\ ValidV1Fields)
          => /\ envOut.ok
             /\ envOut.env.version = V1
             /\ envOut.env.keyId = envJson.keyid
       /\ (envVersion = Num(V2) /\ envJson.version # Num(V2))
          => ParseRefused("UNIDENTIFIED_CIPHERTEXT_ENVELOPE")
       /\ (envVersion \notin {Null, Num(V1), Num(V2)})
          => ParseRefused("UNSUPPORTED_CIPHERTEXT_ENVELOPE")
       /\ (envFrom = "create" /\ envObj.version = V2 /\ envVersion = Num(V1))
          => ~envOut.ok

====
